---- MODULE Spec2Model ----
(***************************************************************************)
(* keli: the fetch / parse / merge / cache weather aggregation engine.     *)
(*                                                                         *)
(* Two specifications live in this module.                                 *)
(*   Spec       the whole program: concurrent GetWeatherData calls, their  *)
(*              fetcher goroutines, the fan-in channel, the WaitGroup, the *)
(*              closer goroutine, cacheMutex, the cache map and the clock. *)
(*   MergeSpec  mergeWeatherData as a pure function, run one loop          *)
(*              iteration per step over every bounded input sequence.      *)
(* Floats are modelled by integers (the code only compares them with 0).   *)
(* A Go slice built by append is nil exactly when it is empty, so a slice  *)
(* is a sequence and nil is the empty sequence.                            *)
(***************************************************************************)
EXTENDS Integers, Sequences, FiniteSets, TLC

\* ------------------------------------------------------------------ bounds
\* Longest input sequence given to mergeWeatherData in MergeSpec.
MaxData == 3
\* The clock runs from 1 to MaxTime (minutes).
MaxTime == 6

\* ------------------------------------------------------- program constants
\* cacheDuration = 5 * time.Minute, in minutes.
cacheDuration == 5

\* The zero time.Time (LastUpdated of a record nobody stamped).
ZeroTime == 0

\* The configured sources, in configuration order.
weatherSources == <<"foreca", "ampparit", "moisio">>

Sources == 1..Len(weatherSources)

\* The concurrent callers of GetWeatherData (HTTP handler goroutines).
Calls == {"c1", "c2"}

\* --------------------------------------------------------------- the record
\* WeatherData{}: every field at its zero value.
ZeroData ==
  [ City |-> "", ObservationHour |-> 0, WeatherSummary |-> "",
    Temperature |-> 0, TemperatureFeelsLike |-> 0,
    TemperatureMin |-> 0, TemperatureMax |-> 0,
    Rainfall |-> 0, Snowfall |-> 0, WindSpeed |-> 0, RainChance |-> 0,
    TemperatureTomorrow |-> 0, TemperatureMinTomorrow |-> 0,
    Sunrise |-> "", Sunset |-> "", DayLength |-> "",
    LastUpdated |-> ZeroTime, HourlyForecast |-> <<>> ]

StringFields == {"City", "WeatherSummary", "Sunrise", "Sunset", "DayLength"}

FloatFields ==
  {"Temperature", "TemperatureFeelsLike", "TemperatureMin", "TemperatureMax",
   "Rainfall", "Snowfall", "TemperatureTomorrow", "TemperatureMinTomorrow"}

IntFields == {"WindSpeed", "ObservationHour"}

\* ------------------------------------------------------------------ merging
chooseNonEmptyString_overwrites(existing, incoming) == incoming

chooseNonEmptyString_incomingWins(existing, incoming) ==
  IF incoming # "" THEN incoming ELSE existing

chooseNonEmptyString(existing, incoming) ==
  IF existing # "" THEN existing ELSE incoming

chooseNonZeroFloat64_zeroMasks(existing, incoming) == incoming

chooseNonZeroFloat64(existing, incoming) ==
  IF incoming # 0 THEN incoming ELSE existing

chooseNonZeroInt_unguarded(existing, incoming) == incoming

\* if d.WindSpeed != 0 { md.WindSpeed = d.WindSpeed }, and the same for
\* ObservationHour.
chooseNonZeroInt(existing, incoming) ==
  IF incoming # 0 THEN incoming ELSE existing

mergeHourly_append(existing, incoming) == existing \o incoming

mergeHourly_firstWins(existing, incoming) ==
  IF existing # <<>> THEN existing ELSE incoming

\* d.HourlyForecast != nil
hourlySupplied(d) == d.HourlyForecast # <<>>

\* if d.HourlyForecast != nil { md.HourlyForecast = d.HourlyForecast }
mergeHourly(existing, incoming) ==
  IF incoming # <<>> THEN incoming ELSE existing

MergeOne_copiesRainChance(md, d) ==
  [ md EXCEPT
      !.City = chooseNonEmptyString(md.City, d.City),
      !.TemperatureMax = chooseNonZeroFloat64(md.TemperatureMax, d.TemperatureMax),
      !.TemperatureMin = chooseNonZeroFloat64(md.TemperatureMin, d.TemperatureMin),
      !.Rainfall = chooseNonZeroFloat64(md.Rainfall, d.Rainfall),
      !.Snowfall = chooseNonZeroFloat64(md.Snowfall, d.Snowfall),
      !.WindSpeed = chooseNonZeroInt(md.WindSpeed, d.WindSpeed),
      !.WeatherSummary = chooseNonEmptyString(md.WeatherSummary, d.WeatherSummary),
      !.Sunrise = chooseNonEmptyString(md.Sunrise, d.Sunrise),
      !.Sunset = chooseNonEmptyString(md.Sunset, d.Sunset),
      !.DayLength = chooseNonEmptyString(md.DayLength, d.DayLength),
      !.Temperature = chooseNonZeroFloat64(md.Temperature, d.Temperature),
      !.TemperatureFeelsLike =
          chooseNonZeroFloat64(md.TemperatureFeelsLike, d.TemperatureFeelsLike),
      !.ObservationHour = chooseNonZeroInt(md.ObservationHour, d.ObservationHour),
      !.TemperatureTomorrow =
          chooseNonZeroFloat64(md.TemperatureTomorrow, d.TemperatureTomorrow),
      !.TemperatureMinTomorrow =
          chooseNonZeroFloat64(md.TemperatureMinTomorrow, d.TemperatureMinTomorrow),
      !.HourlyForecast = mergeHourly(md.HourlyForecast, d.HourlyForecast),
      !.RainChance = chooseNonZeroInt(md.RainChance, d.RainChance) ]

\* One iteration of the loop of mergeWeatherData: md after partial d.
\* RainChance and LastUpdated are not copied.
MergeOne(md, d) ==
  [ md EXCEPT
      !.City = chooseNonEmptyString(md.City, d.City),
      !.TemperatureMax = chooseNonZeroFloat64(md.TemperatureMax, d.TemperatureMax),
      !.TemperatureMin = chooseNonZeroFloat64(md.TemperatureMin, d.TemperatureMin),
      !.Rainfall = chooseNonZeroFloat64(md.Rainfall, d.Rainfall),
      !.Snowfall = chooseNonZeroFloat64(md.Snowfall, d.Snowfall),
      !.WindSpeed = chooseNonZeroInt(md.WindSpeed, d.WindSpeed),
      !.WeatherSummary = chooseNonEmptyString(md.WeatherSummary, d.WeatherSummary),
      !.Sunrise = chooseNonEmptyString(md.Sunrise, d.Sunrise),
      !.Sunset = chooseNonEmptyString(md.Sunset, d.Sunset),
      !.DayLength = chooseNonEmptyString(md.DayLength, d.DayLength),
      !.Temperature = chooseNonZeroFloat64(md.Temperature, d.Temperature),
      !.TemperatureFeelsLike =
          chooseNonZeroFloat64(md.TemperatureFeelsLike, d.TemperatureFeelsLike),
      !.ObservationHour = chooseNonZeroInt(md.ObservationHour, d.ObservationHour),
      !.TemperatureTomorrow =
          chooseNonZeroFloat64(md.TemperatureTomorrow, d.TemperatureTomorrow),
      !.TemperatureMinTomorrow =
          chooseNonZeroFloat64(md.TemperatureMinTomorrow, d.TemperatureMinTomorrow),
      !.HourlyForecast = mergeHourly(md.HourlyForecast, d.HourlyForecast) ]

\* mergeWeatherData(data): the loop run over the whole slice, from the zero
\* record.
RECURSIVE mergeFrom(_, _)
mergeFrom(md, data) ==
  IF data = <<>> THEN md ELSE mergeFrom(MergeOne(md, Head(data)), Tail(data))

mergeWeatherData(data) == mergeFrom(ZeroData, data)

\* ----------------------------------------------------- what sources deliver
\* parseForecaData: max/min temperature, wind speed, summary.
ForecaA ==
  [ZeroData EXCEPT !.TemperatureMax = 10, !.TemperatureMin = 2,
                   !.WindSpeed = 4, !.WeatherSummary = "Poutaa"]

\* A Foreca page with 0 degrees minimum, calm wind and no summary text.
ForecaB ==
  [ZeroData EXCEPT !.TemperatureMax = 7]

\* parseAmpparitData: city, current conditions, hourly rows, tomorrow.
AmpparitA ==
  [ZeroData EXCEPT !.City = "Turku", !.Temperature = 3,
                   !.TemperatureFeelsLike = 1, !.Rainfall = 2,
                   !.ObservationHour = 14, !.HourlyForecast = <<"h1">>,
                   !.TemperatureTomorrow = 6, !.TemperatureMinTomorrow = -1]

\* An Ampparit page at midnight with 0 degrees, no rain, other hourly rows.
AmpparitB ==
  [ZeroData EXCEPT !.City = "Oulu", !.TemperatureFeelsLike = -4,
                   !.HourlyForecast = <<"h2", "h3">>,
                   !.TemperatureMinTomorrow = -9]

\* parseMoisioData: the three sun strings.
MoisioA ==
  [ZeroData EXCEPT !.Sunrise = "08:15", !.Sunset = "17:40",
                   !.DayLength = "09:25"]

\* The older parseForecaData also delivers the city and the snowfall.
ForecaOld ==
  [ZeroData EXCEPT !.City = "Espoo", !.TemperatureMax = 12,
                   !.TemperatureMin = 5, !.WindSpeed = 6, !.Snowfall = 3,
                   !.WeatherSummary = "Sadetta"]

\* Records with every field set, as a caller of mergeWeatherData may build.
FullA ==
  [ City |-> "Vaasa", ObservationHour |-> 9, WeatherSummary |-> "A",
    Temperature |-> 5, TemperatureFeelsLike |-> 4,
    TemperatureMin |-> 1, TemperatureMax |-> 8,
    Rainfall |-> 11, Snowfall |-> 13, WindSpeed |-> 15, RainChance |-> 40,
    TemperatureTomorrow |-> 17, TemperatureMinTomorrow |-> 19,
    Sunrise |-> "09:00", Sunset |-> "16:00", DayLength |-> "07:00",
    LastUpdated |-> 3, HourlyForecast |-> <<"h4">> ]

SummaryB ==
  [ZeroData EXCEPT !.WeatherSummary = "B", !.Temperature = 7,
                   !.Sunset = "18:00", !.RainChance = 60]

\* The input alphabet of MergeSpec.
Partials ==
  {ZeroData, ForecaA, ForecaB, AmpparitA, AmpparitB, MoisioA, ForecaOld,
   FullA, SummaryB}

\* What source s can deliver when fetch, document parse and extraction all
\* succeed (parseMoisioData never fails: an unmatched page gives ZeroData).
Delivers(s) ==
  CASE s = 1 -> {ForecaA}
    [] s = 2 -> {AmpparitA}
    [] s = 3 -> {MoisioA, ZeroData}

\* ---------------------------------------------------------- normalization
\* A city name is a sequence of characters.
replaceChar_shifted(ch) ==
  CASE ch = "ä" -> "ö"
    [] ch = "ö" -> "o"
    [] OTHER -> ch

replaceChar(ch) ==
  CASE ch = "ä" -> "a"
    [] ch = "ö" -> "o"
    [] OTHER -> ch

sanitizeCityName_asIs(name) == name

\* strings.NewReplacer("ä", "a", "ö", "o").Replace(city)
sanitizeCityName(name) == [i \in 1..Len(name) |-> replaceChar(name[i])]

\* -------------------------------------------------------------------- state
VARIABLES
  now,          \* the wall clock, in minutes
  cache,        \* the map cache: normalized city -> WeatherData
  mutex,        \* cacheMutex: its holder, or NoOne
  pc,           \* per call: where GetWeatherData stands
  raw,          \* per call: the city argument as passed
  city,         \* per call: the local city after sanitizeCityName
  found,        \* per call: the ok of the map lookup
  cachedData,   \* per call: the value of the map lookup
  fst,          \* per call and source: the fetcher goroutine's position
  chan,         \* per call: weatherDataChan's buffer, items [src, data]
  closed,       \* per call: weatherDataChan is closed
  wg,           \* per call: the WaitGroup counter
  weatherData,  \* per call: the collected slice, items [src, data]
  final,        \* per call: finalWeatherData
  result,       \* per call: what GetWeatherData returned
  gets,         \* per call: the number of http.Get calls issued
  prevFailed,   \* per call: the caller's previous call, for the same key,
                \*   returned the not-found error
  delivered,    \* per call and source: <<data>> once the fetcher has sent
                \*   data on the channel, <<>> before and when it failed
  urls,         \* per call: the [src, city] of every http.Get issued
  mData,        \* MergeSpec: the argument of mergeWeatherData
  mIdx,         \* MergeSpec: loop iterations done
  md,           \* MergeSpec: the named result md
  hfWrites,     \* MergeSpec: executions of md.HourlyForecast = d.HourlyForecast
  pArg,         \* NormSpec, ParseSpec: the argument of the function
  pOut          \* NormSpec, ParseSpec: what its applications returned, in order

callVars ==
  <<pc, raw, city, found, cachedData, fst, chan, closed, wg, weatherData,
    final, result, gets, prevFailed, delivered, urls>>

progVars == <<now, cache, mutex, callVars>>

mergeVars == <<mData, mIdx, md, hfWrites>>

pureVars == <<pArg, pOut>>

vars == <<progVars, mergeVars, pureVars>>

NoOne == "nobody"

NoResult == [kind |-> "none", via |-> "none", data |-> ZeroData, errCity |-> <<>>]

\* The slice of records inside a slice of [src, data] items.
RECURSIVE DataOf(_)
DataOf(items) ==
  IF items = <<>> THEN <<>> ELSE <<Head(items).data>> \o DataOf(Tail(items))

\* cache[city] = v
MapStore_fresh(m, k, v) == [x \in {k} |-> v]

MapStore(m, k, v) ==
  [x \in (DOMAIN m) \cup {k} |-> IF x = k THEN v ELSE m[x]]

\* time.Since(d.LastUpdated) < cacheDuration
IsFresh_inclusive(d, t) == t - d.LastUpdated <= cacheDuration

IsFresh_reversed(d, t) == t - d.LastUpdated > cacheDuration

IsFresh(d, t) == t - d.LastUpdated < cacheDuration

\* ------------------------------------------------------------ the program
ProgInit ==
  /\ now = 1
  /\ cache = <<>>
  /\ mutex = NoOne
  /\ pc = [c \in Calls |-> "idle"]
  /\ raw = [c \in Calls |-> <<>>]
  /\ city = [c \in Calls |-> <<>>]
  /\ found = [c \in Calls |-> FALSE]
  /\ cachedData = [c \in Calls |-> ZeroData]
  /\ fst = [c \in Calls |-> [s \in Sources |-> "idle"]]
  /\ chan = [c \in Calls |-> <<>>]
  /\ closed = [c \in Calls |-> FALSE]
  /\ wg = [c \in Calls |-> 0]
  /\ weatherData = [c \in Calls |-> <<>>]
  /\ final = [c \in Calls |-> ZeroData]
  /\ result = [c \in Calls |-> NoResult]
  /\ gets = [c \in Calls |-> 0]
  /\ prevFailed = [c \in Calls |-> FALSE]
  /\ delivered = [c \in Calls |-> [s \in Sources |-> <<>>]]
  /\ urls = [c \in Calls |-> {}]

MergeIdle ==
  /\ mData = <<>>
  /\ mIdx = 0
  /\ md = ZeroData
  /\ hfWrites = 0

PureIdle == pArg = <<>> /\ pOut = <<>>

Init == ProgInit /\ MergeIdle /\ PureIdle

\* time passes (the clock stops at maxT)
Tick(maxT) ==
  /\ now < maxT
  /\ now' = now + 1
  /\ UNCHANGED <<cache, mutex, callVars, mergeVars, pureVars>>

\* A handler goroutine calls GetWeatherData(r): fresh locals, and
\* city = sanitizeCityName(city).
Call(c, r) ==
  /\ pc[c] \in {"idle", "done"}
  /\ pc' = [pc EXCEPT ![c] = "start"]
  /\ raw' = [raw EXCEPT ![c] = r]
  /\ city' = [city EXCEPT ![c] = sanitizeCityName(r)]
  /\ result' = [result EXCEPT ![c] = NoResult]
  /\ fst' = [fst EXCEPT ![c] = [s \in Sources |-> "idle"]]
  /\ closed' = [closed EXCEPT ![c] = FALSE]
  /\ wg' = [wg EXCEPT ![c] = 0]
  /\ gets' = [gets EXCEPT ![c] = 0]
  /\ prevFailed' = [prevFailed EXCEPT ![c] =
        result[c].kind = "error" /\ result[c].errCity = sanitizeCityName(r)]
  /\ delivered' = [delivered EXCEPT ![c] = [s \in Sources |-> <<>>]]
  /\ urls' = [urls EXCEPT ![c] = {}]
  /\ UNCHANGED <<now, cache, mutex, found, cachedData, chan, weatherData,
                 final, mergeVars, pureVars>>

Unlocked_deferred(c) == c

\* cacheMutex.Unlock(), right after the map access: nobody holds the mutex
Unlocked(c) == NoOne

CanLock_noExclusion(c) == TRUE

\* cacheMutex.Lock() returns only when nobody holds the mutex
CanLock(c) == mutex = NoOne

\* cacheMutex.Lock() before the lookup
LockForLookup(c) ==
  /\ pc[c] = "start"
  /\ CanLock(c)
  /\ mutex' = c
  /\ pc' = [pc EXCEPT ![c] = "locked_r"]
  /\ UNCHANGED <<now, cache, raw, city, found, cachedData, fst, chan, closed,
                 wg, weatherData, final, result, gets, prevFailed, delivered,
                 urls, mergeVars, pureVars>>

\* cachedData, found := cache[city]; cacheMutex.Unlock()
Lookup(c) ==
  /\ pc[c] = "locked_r"
  /\ mutex = c
  /\ found' = [found EXCEPT ![c] = city[c] \in DOMAIN cache]
  /\ cachedData' = [cachedData EXCEPT ![c] =
        IF city[c] \in DOMAIN cache THEN cache[city[c]] ELSE ZeroData]
  /\ mutex' = Unlocked(c)
  /\ pc' = [pc EXCEPT ![c] = "check"]
  /\ UNCHANGED <<now, cache, raw, city, fst, chan, closed, wg, weatherData,
                 final, result, gets, prevFailed, delivered, urls, mergeVars,
                 pureVars>>

AfterHit_touches(m, k, t) ==
  IF k \in DOMAIN m THEN MapStore(m, k, [m[k] EXCEPT !.LastUpdated = t])
                    ELSE m

\* The map after return cachedData, nil: not touched.
AfterHit(m, k, t) == m

\* if found && time.Since(cachedData.LastUpdated) < cacheDuration: return it
CacheHit(c) ==
  /\ pc[c] = "check"
  /\ found[c] /\ IsFresh(cachedData[c], now)
  /\ result' = [result EXCEPT ![c] =
        [kind |-> "ok", via |-> "cache", data |-> cachedData[c],
         errCity |-> <<>>]]
  /\ pc' = [pc EXCEPT ![c] = "done"]
  /\ found' = [found EXCEPT ![c] = FALSE]
  /\ cachedData' = [cachedData EXCEPT ![c] = ZeroData]
  /\ cache' = AfterHit(cache, city[c], now)
  /\ UNCHANGED <<now, mutex, raw, city, fst, chan, closed, wg,
                 weatherData, final, gets, prevFailed, delivered, urls,
                 mergeVars, pureVars>>

\* otherwise: make the channel, wg.Add(len(weatherSources)), start one
\* fetcher goroutine per source and the closer goroutine
Launch(c) ==
  /\ pc[c] = "check"
  /\ ~(found[c] /\ IsFresh(cachedData[c], now))
  /\ chan' = [chan EXCEPT ![c] = <<>>]
  /\ closed' = [closed EXCEPT ![c] = FALSE]
  /\ wg' = [wg EXCEPT ![c] = Len(weatherSources)]
  /\ fst' = [fst EXCEPT ![c] = [s \in Sources |-> "run"]]
  /\ weatherData' = [weatherData EXCEPT ![c] = <<>>]
  /\ pc' = [pc EXCEPT ![c] = "collect"]
  /\ found' = [found EXCEPT ![c] = FALSE]
  /\ cachedData' = [cachedData EXCEPT ![c] = ZeroData]
  /\ UNCHANGED <<now, cache, mutex, raw, city, final, result, gets,
                 prevFailed, delivered, urls, mergeVars, pureVars>>

\* url := source.URL + city
RequestURL(c, s) == [src |-> weatherSources[s], city |-> city[c]]

AfterError_retries == "run"

\* The fetcher after log.Printf and return: finished, no second attempt.
AfterError == "done"

chanCap_short == Len(weatherSources) - 1

\* make(chan WeatherData, len(weatherSources))
chanCap == Len(weatherSources)

wgDone_skipped(n) == n

\* defer wg.Done()
wgDone(n) == n - 1

AfterFailure_sendsZero(ch, s) == Append(ch, [src |-> s, data |-> ZeroData])

\* The channel after a failed fetcher's log.Printf and return: no send.
AfterFailure(ch, s) == ch

\* A fetcher whose http.Get, document parse or source.Parse fails: it logs,
\* returns, and the deferred wg.Done() runs.
FetchFail(c, s) ==
  /\ fst[c][s] = "run"
  /\ gets' = [gets EXCEPT ![c] = @ + 1]
  /\ urls' = [urls EXCEPT ![c] = @ \cup {RequestURL(c, s)}]
  /\ chan' = [chan EXCEPT ![c] = AfterFailure(@, s)]
  /\ fst' = [fst EXCEPT ![c][s] = AfterError]
  /\ wg' = [wg EXCEPT ![c] = wgDone(@)]
  /\ UNCHANGED <<now, cache, mutex, pc, raw, city, found, cachedData, closed,
                 weatherData, final, result, prevFailed, delivered,
                 mergeVars, pureVars>>

\* A fetcher that succeeds: weatherDataChan <- data (the buffer has room for
\* every source, the send does not block).
FetchSend(c, s, d) ==
  /\ fst[c][s] = "run"
  /\ Len(chan[c]) < chanCap
  /\ ~closed[c]
  /\ gets' = [gets EXCEPT ![c] = @ + 1]
  /\ chan' = [chan EXCEPT ![c] = Append(@, [src |-> s, data |-> d])]
  /\ fst' = [fst EXCEPT ![c][s] = "sent"]
  /\ urls' = [urls EXCEPT ![c] = @ \cup {RequestURL(c, s)}]
  /\ delivered' = [delivered EXCEPT ![c][s] = <<d>>]
  /\ UNCHANGED <<now, cache, mutex, pc, raw, city, found, cachedData, closed,
                 wg, weatherData, final, result, prevFailed, mergeVars,
                 pureVars>>

\* the deferred wg.Done() of a fetcher that has sent
FetcherDone(c, s) ==
  /\ fst[c][s] = "sent"
  /\ fst' = [fst EXCEPT ![c][s] = "done"]
  /\ wg' = [wg EXCEPT ![c] = wgDone(@)]
  /\ UNCHANGED <<now, cache, mutex, pc, raw, city, found, cachedData, chan,
                 closed, weatherData, final, result, gets, prevFailed,
                 delivered, urls, mergeVars, pureVars>>

CloserReady_noWait(c) == pc[c] = "collect"

\* wg.Wait() of the closer goroutine returns
CloserReady(c) == pc[c] = "collect" /\ wg[c] = 0

\* go func() { wg.Wait(); close(weatherDataChan) }()
Closer(c) ==
  /\ CloserReady(c)
  /\ ~closed[c]
  /\ closed' = [closed EXCEPT ![c] = TRUE]
  /\ UNCHANGED <<now, cache, mutex, pc, raw, city, found, cachedData, fst,
                 chan, wg, weatherData, final, result, gets, prevFailed,
                 delivered, urls, mergeVars, pureVars>>

\* for data := range weatherDataChan { weatherData = append(weatherData, data) }
Receive(c) ==
  /\ pc[c] = "collect"
  /\ chan[c] # <<>>
  /\ weatherData' = [weatherData EXCEPT ![c] = Append(@, Head(chan[c]))]
  /\ chan' = [chan EXCEPT ![c] = Tail(@)]
  /\ UNCHANGED <<now, cache, mutex, pc, raw, city, found, cachedData, fst,
                 closed, wg, final, result, gets, prevFailed, delivered,
                 urls, mergeVars, pureVars>>

\* finalWeatherData := mergeWeatherData(weatherData) with LastUpdated stamped
Stamped(items, t) ==
  [mergeWeatherData(DataOf(items)) EXCEPT !.LastUpdated = t]

NoData_byTime(fw) == fw.LastUpdated = ZeroTime

NoData_unchecked(fw) == FALSE

\* if finalWeatherData.City == "" { return WeatherData{}, fmt.Errorf(...) }
NoData(fw) == fw.City = ""

CacheUpdate_keepNewest(m, k, fw) ==
  IF k \in DOMAIN m /\ m[k].LastUpdated > fw.LastUpdated
    THEN m ELSE MapStore(m, k, fw)

CacheUpdate_keepExisting(m, k, fw) ==
  IF k \in DOMAIN m THEN m ELSE MapStore(m, k, fw)

CacheUpdate_namedResult(m, k, fw) == MapStore(m, k, ZeroData)

\* cache[city] = finalWeatherData
CacheUpdate(m, k, fw) == MapStore(m, k, fw)

AfterNotFound_evicts(m, k) == [x \in (DOMAIN m) \ {k} |-> m[x]]

\* The map after return WeatherData{}, fmt.Errorf(...): not touched.
AfterNotFound(m, k) == m

\* The range loop ends (channel closed and drained); merge, stamp, and
\* return the error when the merged city is empty.
Finish(c) ==
  /\ pc[c] = "collect"
  /\ chan[c] = <<>>
  /\ closed[c]
  /\ weatherData' = [weatherData EXCEPT ![c] = <<>>]
  /\ IF NoData(Stamped(weatherData[c], now))
       THEN /\ result' = [result EXCEPT ![c] =
                 [kind |-> "error", via |-> "fetch", data |-> ZeroData,
                  errCity |-> city[c]]]
            /\ final' = final
            /\ cache' = AfterNotFound(cache, city[c])
            /\ pc' = [pc EXCEPT ![c] = "done"]
       ELSE /\ result' = result
            /\ final' = [final EXCEPT ![c] = Stamped(weatherData[c], now)]
            /\ cache' = cache
            /\ pc' = [pc EXCEPT ![c] = "store"]
  /\ UNCHANGED <<now, mutex, raw, city, found, cachedData, fst, chan,
                 closed, wg, gets, prevFailed, delivered, urls, mergeVars,
                 pureVars>>

\* cacheMutex.Lock() before the store
LockForStore(c) ==
  /\ pc[c] = "store"
  /\ CanLock(c)
  /\ mutex' = c
  /\ pc' = [pc EXCEPT ![c] = "locked_w"]
  /\ UNCHANGED <<now, cache, raw, city, found, cachedData, fst, chan, closed,
                 wg, weatherData, final, result, gets, prevFailed, delivered,
                 urls, mergeVars, pureVars>>

\* cache[city] = finalWeatherData; cacheMutex.Unlock(); return it
Store(c) ==
  /\ pc[c] = "locked_w"
  /\ mutex = c
  /\ cache' = CacheUpdate(cache, city[c], final[c])
  /\ mutex' = Unlocked(c)
  /\ result' = [result EXCEPT ![c] =
        [kind |-> "ok", via |-> "fetch", data |-> final[c], errCity |-> <<>>]]
  /\ final' = [final EXCEPT ![c] = ZeroData]
  /\ pc' = [pc EXCEPT ![c] = "done"]
  /\ UNCHANGED <<now, raw, city, found, cachedData, fst, chan, closed, wg,
                 weatherData, gets, prevFailed, delivered, urls, mergeVars,
                 pureVars>>

\* --------------------------------------------- mergeWeatherData, stepwise
\* Every slice of at most n partial records.
SeqsUpTo(n) == UNION { [1..k -> Partials] : k \in 0..n }

MergeInit ==
  /\ ProgInit
  /\ PureIdle
  /\ mData \in SeqsUpTo(MaxData)
  /\ mIdx = 0
  /\ md = ZeroData
  /\ hfWrites = 0

\* One iteration of for _, d := range data { ... }.
MergeIter ==
  /\ mIdx < Len(mData)
  /\ md' = MergeOne(md, mData[mIdx + 1])
  /\ hfWrites' = IF hourlySupplied(mData[mIdx + 1]) THEN hfWrites + 1
                                                   ELSE hfWrites
  /\ mIdx' = mIdx + 1
  /\ UNCHANGED <<mData, progVars, pureVars>>

MergeNext == MergeIter

MergeSpec == MergeInit /\ [][MergeNext]_vars

\* The steps of the callers in C asking for the cities in R until maxT, when
\* source s can deliver the records D[s].
StepOver(C, R, maxT, D) ==
  \/ Tick(maxT)
  \/ \E c \in C, r \in R : Call(c, r)
  \/ \E c \in C : LockForLookup(c)
  \/ \E c \in C : Lookup(c)
  \/ \E c \in C : CacheHit(c)
  \/ \E c \in C : Launch(c)
  \/ \E c \in C, s \in Sources : FetchFail(c, s)
  \/ \E c \in C, s \in Sources : \E d \in D[s] : FetchSend(c, s, d)
  \/ \E c \in C, s \in Sources : FetcherDone(c, s)
  \/ \E c \in C : Closer(c)
  \/ \E c \in C : Receive(c)
  \/ \E c \in C : Finish(c)
  \/ \E c \in C : LockForStore(c)
  \/ \E c \in C : Store(c)

\* The steps of the callers in C asking for the cities in R until maxT.
Step(C, R, maxT) ==
  StepOver(C, R, maxT, [s \in Sources |-> Delivers(s)])

\* One caller at a time: the sequential behaviour of GetWeatherData with its
\* own goroutines, over every city and the whole clock range.
Solo == {"c1"}

\* The two spellings of one city: both address the cache key <<"H", "a">>.
SoloCities == { <<"H", "ä">>, <<"H", "a">> }

Next == Step(Solo, SoloCities, MaxTime)

Spec == Init /\ [][Next]_vars

\* The next step of the goroutine that runs GetWeatherData for call c.
CallerStep(c) ==
  \/ LockForLookup(c) \/ Lookup(c) \/ CacheHit(c) \/ Launch(c)
  \/ Receive(c) \/ Finish(c) \/ LockForStore(c) \/ Store(c)

\* The next step of the fetcher goroutine of source s.
FetcherStep(c, s) ==
  \/ FetchFail(c, s)
  \/ \E d \in Delivers(s) : FetchSend(c, s, d)
  \/ FetcherDone(c, s)

\* Scheduling of one call: the goroutine of GetWeatherData, its fetchers and
\* its closer each take their next step when they can, and every retrieval
\* returns, with a document or with an error.
Fairness ==
  \A c \in Solo :
    /\ WF_vars(CallerStep(c))
    /\ \A s \in Sources : WF_vars(FetcherStep(c, s))
    /\ WF_vars(Closer(c))

\* The clock of the fair specification: long enough for a miss, a hit, and
\* a miss after an error.
LiveMaxTime == 2

LiveNext == Step(Solo, SoloCities, LiveMaxTime)

LiveSpec == Init /\ [][LiveNext]_vars /\ Fairness

\* Two concurrent callers of GetWeatherData, each with its own goroutines,
\* sharing cache and cacheMutex.  Foreca and Moisio are down, so that only the
\* Ampparit fetcher can deliver; the clock runs to DuoMaxTime.
DuoMaxTime == 2

DuoDelivers == [s \in Sources |-> IF s = 2 THEN {AmpparitA} ELSE {}]

\* Two spellings of one city and a city with another key.
DuoCities == SoloCities \cup { <<"O", "ö">> }

DuoNext == StepOver(Calls, DuoCities, DuoMaxTime, DuoDelivers)

DuoSpec == Init /\ [][DuoNext]_vars

\* ------------------------------------------------ sanitizeCityName, alone
\* The longest city name tried.
MaxLen == 3

\* Letters of city names: folded ones, their plain forms, and others.
Letters == {"H", "a", "ä", "o", "ö", "Ä"}

Hyvinkaeae == <<"H", "y", "v", "i", "n", "k", "ä", "ä">>

Hyvinkaa == <<"H", "y", "v", "i", "n", "k", "a", "a">>

\* The city names tried: every name of at most n letters, and Hyvinkää in
\* both spellings.
Names(n) ==
  UNION { [1..k -> Letters] : k \in 0..n } \cup {Hyvinkaeae, Hyvinkaa}

NormInit ==
  /\ ProgInit
  /\ MergeIdle
  /\ pArg \in Names(MaxLen)
  /\ pOut = <<>>

\* city = sanitizeCityName(city), on the name as passed and then once more
\* on what it returned.
NormApply ==
  /\ Len(pOut) < 2
  /\ pOut' = Append(pOut, sanitizeCityName(IF pOut = <<>> THEN pArg
                                                          ELSE pOut[Len(pOut)]))
  /\ UNCHANGED <<pArg, progVars, mergeVars>>

NormNext == NormApply

NormSpec == NormInit /\ [][NormNext]_vars

\* --------------------------------------------------- texts and numbers
\* The text of a selection is a sequence of one-character strings; a float64
\* is held in tenths.
Digits == {"0", "1", "2", "3", "4", "5", "6", "7", "8", "9"}

DigitVal(ch) ==
  CASE ch = "0" -> 0 [] ch = "1" -> 1 [] ch = "2" -> 2 [] ch = "3" -> 3
    [] ch = "4" -> 4 [] ch = "5" -> 5 [] ch = "6" -> 6 [] ch = "7" -> 7
    [] ch = "8" -> 8 [] ch = "9" -> 9

RECURSIVE NatVal(_)
NatVal(d) ==
  IF d = <<>> THEN 0
  ELSE NatVal(SubSeq(d, 1, Len(d) - 1)) * 10 + DigitVal(d[Len(d)])

\* The Go string of a text.
RECURSIVE Join(_)
Join(t) == IF t = <<>> THEN "" ELSE t[1] \o Join(Tail(t))

HasPrefix(t, pat) == Len(t) >= Len(pat) /\ SubSeq(t, 1, Len(pat)) = pat

\* strings.Replace(t, pat, "", -1)
RECURSIVE removeAll(_, _)
removeAll(t, pat) ==
  IF t = <<>> THEN <<>>
  ELSE IF HasPrefix(t, pat)
    THEN removeAll(SubSeq(t, Len(pat) + 1, Len(t)), pat)
    ELSE <<t[1]>> \o removeAll(Tail(t), pat)

\* strings.NewReplacer("°", "", "C", "", "F", "", ",", ".").Replace(t)
RECURSIVE parserReplace(_)
parserReplace(t) ==
  IF t = <<>> THEN <<>>
  ELSE IF t[1] \in {"°", "C", "F"} THEN parserReplace(Tail(t))
  ELSE IF t[1] = "," THEN <<".">> \o parserReplace(Tail(t))
  ELSE <<t[1]>> \o parserReplace(Tail(t))

\* strings.TrimSpace(t)
RECURSIVE TrimSpace(_)
TrimSpace(t) ==
  IF t = <<>> THEN <<>>
  ELSE IF t[1] = " " THEN TrimSpace(Tail(t))
  ELSE IF t[Len(t)] = " " THEN TrimSpace(SubSeq(t, 1, Len(t) - 1))
  ELSE t

Unsigned(t) == IF t # <<>> /\ t[1] \in {"+", "-"} THEN Tail(t) ELSE t

Sign(t) == IF t # <<>> /\ t[1] = "-" THEN -1 ELSE 1

\* strconv.Atoi(t): an optional sign and decimal digits, else an error.
Atoi(t) ==
  LET u == Unsigned(t) IN
  IF u # <<>> /\ \A i \in 1..Len(u) : u[i] \in Digits
    THEN [err |-> FALSE, val |-> Sign(t) * NatVal(u)]
    ELSE [err |-> TRUE, val |-> 0]

\* strconv.ParseFloat(t, 64) on decimal texts: an optional sign, digits with
\* at most one point and at least one digit, else an error.  The value is in
\* tenths, of which the texts tried have at most one digit.
ParseFloat(t) ==
  LET u == Unsigned(t)
      points == { i \in 1..Len(u) : u[i] = "." }
      p == IF points = {} THEN Len(u) + 1 ELSE CHOOSE i \in points : TRUE
      whole == SubSeq(u, 1, p - 1)
      tenth == IF p < Len(u) THEN DigitVal(u[p + 1]) ELSE 0
  IN
  IF /\ \A i \in 1..Len(u) : u[i] \in Digits \cup {"."}
     /\ Cardinality(points) <= 1
     /\ \E i \in 1..Len(u) : u[i] \in Digits
    THEN [err |-> FALSE, val |-> Sign(t) * (NatVal(whole) * 10 + tenth)]
    ELSE [err |-> TRUE, val |-> 0]

cleanTemperatureString(temperature) ==
  ParseFloat(TrimSpace(parserReplace(temperature)))

\* strings.Split(t, ".")[0]
RECURSIVE firstSentence(_)
firstSentence(t) ==
  IF t = <<>> \/ t[1] = "." THEN <<>>
  ELSE <<t[1]>> \o firstSentence(Tail(t))

\* -------------------------------------------------------- the extractors
\* return WeatherData{}, err
Failed == [err |-> TRUE, data |-> ZeroData]

parseForecaData_lenient(doc) ==
  [err |-> FALSE,
   data |-> [ZeroData EXCEPT
     !.TemperatureMax = cleanTemperatureString(doc.tx).val,
     !.TemperatureMin = cleanTemperatureString(doc.tn).val,
     !.WindSpeed = Atoi(doc.w).val,
     !.WeatherSummary = Join(firstSentence(doc.txt))]]

\* doc holds the text of each selection: p.tx, p.tn, p.w and .txt.
parseForecaData(doc) ==
  LET tempMax == cleanTemperatureString(doc.tx)
      tempMin == cleanTemperatureString(doc.tn)
      windSpeed == Atoi(doc.w)
  IN
  IF tempMax.err THEN Failed
  ELSE IF tempMin.err THEN Failed
  ELSE IF windSpeed.err THEN Failed
  ELSE [err |-> FALSE,
        data |-> [ZeroData EXCEPT
          !.TemperatureMax = tempMax.val,
          !.TemperatureMin = tempMin.val,
          !.WindSpeed = windSpeed.val,
          !.WeatherSummary = Join(firstSentence(doc.txt))]]

\* The rows the hourly loop visits.
HourSlice == 24

\* The switch on the class of .weather-symbol > span; the three emoji are
\* named.
weatherSymbol(class) ==
  CASE class = "d000" -> "sun"
    [] class = "n000" -> "moon"
    [] OTHER -> "unknown"

\* One call of the function given to hours.Each: the forecast with the row's
\* record appended, or unchanged when one of its texts does not parse.
hourlyRow(forecast, s) ==
  LET temp == cleanTemperatureString(s.temperature)
      tempFL == cleanTemperatureString(s.temperature)
      windSpeed == Atoi(s.wind)
      rainfall == ParseFloat(removeAll(s.precipitation, <<" ", "m", "m">>))
  IN
  IF temp.err \/ tempFL.err \/ windSpeed.err \/ rainfall.err THEN forecast
  ELSE Append(forecast,
         [Hour |-> Join(s.time), WeatherSymbol |-> weatherSymbol(s.symbol),
          Temperature |-> temp.val, TemperatureFeelsLike |-> tempFL.val,
          WindSpeed |-> windSpeed.val, Rainfall |-> rainfall.val,
          RainChance |-> 0])

\* doc.Find(...).Slice(0, 24) takes s.Nodes[0:24]: on a page with fewer
\* rows the slice expression is out of range, or yields nil nodes that the
\* row function dereferences; either way the fetcher goroutine panics.
Panicked == [err |-> TRUE, data |-> ZeroData, panic |-> TRUE]

\* hours.Each over the rows of Slice(0, 24), of a page with at least that
\* many rows.
RECURSIVE hourlyFrom(_, _, _)
hourlyFrom(forecast, hours, i) ==
  IF i > HourSlice THEN forecast
  ELSE hourlyFrom(hourlyRow(forecast, hours[i]), hours, i + 1)

\* doc holds the text of each selection and the rows of the hour selector.
parseAmpparitData(doc) ==
  LET temperature == cleanTemperatureString(doc.temperature)
      temperatureFeelsLike == cleanTemperatureString(doc.feelsLike)
      rainfall ==
        ParseFloat(removeAll(doc.precipitation, <<" ", "m", "m">>))
      observationHour == Atoi(doc.time)
      temperatureTomorrow == cleanTemperatureString(doc.tomorrow)
      temperatureTomorrowMin ==
        cleanTemperatureString(
          removeAll(doc.tomorrowMin, <<"a", "l", "i", "n", " ">>))
  IN
  IF doc.location = <<>> THEN Failed
  ELSE IF temperature.err THEN Failed
  ELSE IF temperatureFeelsLike.err THEN Failed
  ELSE IF rainfall.err THEN Failed
  ELSE IF observationHour.err THEN Failed
  ELSE IF Len(doc.hours) < HourSlice THEN Panicked
  ELSE IF temperatureTomorrow.err THEN Failed
  ELSE IF temperatureTomorrowMin.err THEN Failed
  ELSE [err |-> FALSE,
        data |-> [ZeroData EXCEPT
          !.City = Join(doc.location),
          !.Temperature = temperature.val,
          !.TemperatureFeelsLike = temperatureFeelsLike.val,
          !.Rainfall = rainfall.val,
          !.ObservationHour = observationHour.val,
          !.HourlyForecast = hourlyFrom(<<>>, doc.hours, 1),
          !.TemperatureTomorrow = temperatureTomorrow.val,
          !.TemperatureMinTomorrow = temperatureTomorrowMin.val,
          !.WeatherSummary = ""]]

parseMoisioData(doc) ==
  [err |-> FALSE,
   data |-> [ZeroData EXCEPT !.Sunrise = Join(doc.sunrise),
                             !.Sunset = Join(doc.sunset),
                             !.DayLength = Join(doc.dayLength)]]

\* source.Parse(doc)
Parse(s, doc) ==
  CASE s = 1 -> parseForecaData(doc)
    [] s = 2 -> parseAmpparitData(doc)
    [] s = 3 -> parseMoisioData(doc)

\* ------------------------------------------------- the extractors, alone
\* The rows of the hour selector that vary from page to page.
MaxHours == 2

Absent == <<>>

Junk == <<"n", "/", "a">>

TempTexts == { <<"1", "0", "°">>, <<"-", "4", ",", "5", " ", "°", "C">>,
               Absent, Junk }

WindTexts == { <<"7">>, Absent, <<"7", " ", "m", "/", "s">> }

SummaryTexts == { <<"S", "u", "m", "u", "a", ".", " ", "Y", "ö">>,
                  <<"P", "o", "u", "t", "a">>, Absent }

ForecaDocs ==
  [tx : TempTexts, tn : TempTexts, w : WindTexts, txt : SummaryTexts]

DayRow ==
  [temperature |-> <<"3", "°">>, wind |-> <<"5">>,
   precipitation |-> <<"0", ".", "2", " ", "m", "m">>, symbol |-> "d000",
   time |-> <<"1", "4">>]

NightRow ==
  [temperature |-> <<"-", "1", "°">>, wind |-> <<"2">>,
   precipitation |-> <<"0", " ", "m", "m">>, symbol |-> "n000",
   time |-> <<"2", "3">>]

NoWindRow == [DayRow EXCEPT !.wind = Absent, !.symbol = "d400"]

NoTempRow == [DayRow EXCEPT !.temperature = Junk]

HourRows == {DayRow, NoWindRow, NoTempRow}

\* Pages of HourSlice rows or one more: at most n rows that vary, then
\* NightRow throughout.
HourLists(n) ==
  { [i \in 1..(HourSlice + e) |-> IF i <= Len(p) THEN p[i] ELSE NightRow] :
      p \in UNION { [1..k -> HourRows] : k \in 0..n }, e \in {0, 1} }

AmpparitDocs ==
  [location : { <<"O", "u", "l", "u">>, Absent },
   temperature : { <<"3", "°">>, Absent },
   feelsLike : { <<"1", ",", "5", "°">>, Junk },
   precipitation : { <<"0", ".", "2", " ", "m", "m">>, <<"0", ",", "2">> },
   time : { <<"1", "4">>, Absent },
   hours : HourLists(MaxHours),
   tomorrow : { <<"6", "°">>, Absent },
   tomorrowMin : { <<"a", "l", "i", "n", " ", "-", "1", "°">>, Junk }]

MoisioDocs ==
  [sunrise : { <<"0", "8", ":", "1", "5">>, Absent },
   sunset : { <<"1", "7", ":", "4", "0">>, Absent },
   dayLength : { <<"0", "9", ":", "2", "5">>, Absent }]

Docs(s) ==
  CASE s = 1 -> ForecaDocs
    [] s = 2 -> AmpparitDocs
    [] s = 3 -> MoisioDocs

ParseInit ==
  /\ ProgInit
  /\ MergeIdle
  /\ \E s \in Sources : pArg \in [src : {s}, doc : Docs(s)]
  /\ pOut = <<>>

\* data, err := source.Parse(doc)
ParseApply ==
  /\ pOut = <<>>
  /\ pOut' = <<Parse(pArg.src, pArg.doc)>>
  /\ UNCHANGED <<pArg, progVars, mergeVars>>

ParseNext == ParseApply

ParseSpec == ParseInit /\ [][ParseNext]_vars

\* ------------------------------------- parseAmpparitData on any page
\* Pages with fewer rows than the hourly loop visits: at most n rows that
\* vary, alone or followed by NightRow up to one row short.
ShortLists(n) ==
  { [i \in 1..(IF e = 0 THEN Len(p) ELSE HourSlice - 1) |->
       IF i <= Len(p) THEN p[i] ELSE NightRow] :
      p \in UNION { [1..k -> HourRows] : k \in 0..n }, e \in {0, 1} }

ShortDocs ==
  { [d EXCEPT !.hours = h] : d \in AmpparitDocs, h \in ShortLists(MaxHours) }

PageInit ==
  /\ ProgInit
  /\ MergeIdle
  /\ pArg \in [src : {2}, doc : AmpparitDocs \cup ShortDocs]
  /\ pOut = <<>>

PageNext == ParseApply

PageSpec == PageInit /\ [][PageNext]_vars

\* ================================================================= claims
\* ------------------------------------------------------------- helpers
Prefix == SubSeq(mData, 1, mIdx)

MergeDone == mIdx = Len(mData)

\* The value of string field f in the first record of data that has one.
FirstNonEmpty(f, data) ==
  IF \E k \in 1..Len(data) : data[k][f] # ""
    THEN data[CHOOSE k \in 1..Len(data) :
                /\ data[k][f] # ""
                /\ \A j \in 1..(k - 1) : data[j][f] = ""][f]
    ELSE ""

\* The value of numeric field f in the last record of data that has one.
LastNonZero(f, data) ==
  IF \E k \in 1..Len(data) : data[k][f] # 0
    THEN data[CHOOSE k \in 1..Len(data) :
                /\ data[k][f] # 0
                /\ \A j \in (k + 1)..Len(data) : data[j][f] = 0][f]
    ELSE 0

\* The positions of data whose record carries hourly rows.
Suppliers(data) == { k \in 1..Len(data) : data[k].HourlyForecast # <<>> }

Highest(S) == CHOOSE k \in S : \A j \in S : j <= k

Lowest(S) == CHOOSE k \in S : \A j \in S : k <= j

\* The sources of a slice of [src, data] items are in configuration order.
InLaunchOrder(items) ==
  \A i, j \in 1..Len(items) : i < j => items[i].src < items[j].src

\* ------------------------------------------------------------------ C1
\* C1: the slice GetWeatherData passes to mergeWeatherData (the collected
\* slice once the channel is closed and drained) lists the successful
\* sources in the order of weatherSources, whatever order they finished in.
C1_CollectedInLaunchOrder ==
  \A c \in Calls :
    (pc[c] = "collect" /\ closed[c] /\ chan[c] = <<>>)
      => InLaunchOrder(weatherData[c])

\* ------------------------------------------------------------------ C2
\* C2: after every iteration of the merge loop each string field of md
\* holds the value of the first partial processed so far that has a
\* non-empty value for it, and "" when none has; so a later partial never
\* overwrites a value already set.
C2_StringFirstNonEmptyWins ==
  \A f \in StringFields : md[f] = FirstNonEmpty(f, Prefix)

\* A merge that has finished and in which a later partial carried another
\* non-empty value for a string field the result took from an earlier one.
C2_Witness ==
  /\ MergeDone
  /\ \E f \in StringFields : \E i, j \in 1..Len(mData) :
       /\ i < j
       /\ mData[i][f] # ""
       /\ mData[j][f] # ""
       /\ mData[j][f] # mData[i][f]
       /\ md[f] = mData[i][f]

\* ------------------------------------------------------------------ C3
\* C3: after every iteration of the merge loop each float field and each
\* of the two integer fields of md holds the value of the last partial
\* processed so far whose value for it is non-zero, and 0 when none is; a
\* zero in a later partial never masks an earlier non-zero value.
C3_NumericLastNonZeroWins ==
  \A f \in FloatFields \cup IntFields : md[f] = LastNonZero(f, Prefix)

\* A finished merge of three partials: non-zero, zero, then nothing or
\* another value; and one where a zero follows the value that is kept.
C3_Witness ==
  /\ MergeDone
  /\ Len(mData) = 3
  /\ \E f \in FloatFields : \E g \in IntFields :
       /\ mData[1][f] # 0 /\ mData[2][f] = 0 /\ mData[3][f] # 0
       /\ mData[3][f] # mData[1][f]
       /\ md[f] = mData[3][f]
       /\ mData[2][g] # 0 /\ mData[3][g] = 0
       /\ md[g] = mData[2][g]

C5_HourlySetOnceByFirst ==
  /\ hfWrites <= 1
  /\ MergeDone /\ Suppliers(mData) # {}
       => md.HourlyForecast = mData[Lowest(Suppliers(mData))].HourlyForecast

\* C5 as amended: md.HourlyForecast is assigned once for every partial
\* that carries hourly rows, and each such assignment replaces the whole
\* sequence, also one set by an earlier partial.
C5_HourlySetByEverySupplier ==
  /\ hfWrites = Cardinality(Suppliers(Prefix))
  /\ (mIdx > 0 /\ mData[mIdx].HourlyForecast # <<>>)
       => md.HourlyForecast = mData[mIdx].HourlyForecast

\* Two partials with different hourly rows have been merged: two
\* assignments, the second has replaced the first.
C5_Witness ==
  /\ mIdx = 2
  /\ mData[1].HourlyForecast # <<>>
  /\ mData[2].HourlyForecast # <<>>
  /\ mData[1].HourlyForecast # mData[2].HourlyForecast
  /\ hfWrites = 2
  /\ md.HourlyForecast = mData[2].HourlyForecast

\* ------------------------------------------------------------------ C6
\* C6: every record GetWeatherData returns without error has a non-empty
\* city, and every entry of the cache has a non-empty city.
C6_CityNeverEmpty ==
  /\ \A c \in Calls : result[c].kind = "ok" => result[c].data.City # ""
  /\ \A k \in DOMAIN cache : cache[k].City # ""

\* A call has returned a record it fetched and stored, after Foreca and
\* Moisio delivered city-less partials next to Ampparit's.
C6_Witness ==
  \E c \in Calls :
    /\ pc[c] = "done"
    /\ result[c].kind = "ok" /\ result[c].via = "fetch"
    /\ result[c].data.TemperatureMax # 0
    /\ result[c].data.Sunrise # ""
    /\ city[c] \in DOMAIN cache
    /\ cache[city[c]] = result[c].data

\* ------------------------------------------------------------------ C7
\* C7: when the collected partials carry no city, the call ends with the
\* not-found error in that very step and the cache is left as it was; and
\* the caller's next call for the same key finds no fresh entry and starts
\* the three fetchers again.
C7_NotFoundIsNotCached ==
  [][\A c \in Calls :
       /\ ( /\ pc[c] = "collect" /\ pc'[c] # "collect"
            /\ \A i \in 1..Len(weatherData[c]) : weatherData[c][i].data.City = "" )
          => /\ pc'[c] = "done"
             /\ result'[c].kind = "error"
             /\ cache' = cache
       /\ ( /\ prevFailed[c] /\ pc[c] = "check" /\ pc'[c] # "check" )
          => /\ pc'[c] = "collect"
             /\ \A s \in Sources : fst'[c][s] = "run"
             /\ wg'[c] = Len(weatherSources)
     ]_vars

\* After a not-found for the key (two city-less partials were collected),
\* the caller has asked again and its fetchers run again.
C7_Witness ==
  \E c \in Calls :
    /\ prevFailed[c]
    /\ pc[c] = "collect"
    /\ \A s \in Sources : fst[c][s] = "run"
    /\ city[c] \notin DOMAIN cache

\* ------------------------------------------------------------------ C8
\* C8: when the lookup found an entry younger than the TTL, the call
\* returns exactly that record, which is still the cache entry, without
\* starting a fetcher, issuing a GET, merging or writing the cache.
C8_FreshHitServesCache ==
  [][\A c \in Calls :
       ( /\ pc[c] = "check" /\ pc'[c] # "check"
         /\ found[c]
         /\ now - cachedData[c].LastUpdated < cacheDuration )
       => /\ pc'[c] = "done"
          /\ result'[c].kind = "ok"
          /\ result'[c].data = cachedData[c]
          /\ result'[c].data = cache[city[c]]
          /\ cache' = cache
          /\ gets'[c] = 0
          /\ wg'[c] = 0
          /\ \A s \in Sources : fst'[c][s] = "idle"
     ]_vars

\* A call has been answered from the cache with an entry aged one short of
\* the TTL, under the other spelling of the city.
C8_Witness ==
  \E c \in Calls :
    /\ pc[c] = "done"
    /\ result[c].via = "cache"
    /\ now - result[c].data.LastUpdated = cacheDuration - 1
    /\ raw[c] # city[c]
    /\ gets[c] = 0

\* ------------------------------------------------------------------ C9
\* C9: a record is served from the cache only unchanged and only while
\* its age is below the TTL; a lookup that finds an entry of age >= TTL
\* (age = TTL included) starts the fetchers, and what that call returns is
\* the not-found error or a record merged and stamped after the stale one,
\* which it has stored.
C9_StaleNeverServed ==
  [][\A c \in Calls :
       /\ ( /\ pc[c] = "check" /\ pc'[c] # "check"
            /\ found[c]
            /\ now - cachedData[c].LastUpdated >= cacheDuration )
          => /\ pc'[c] = "collect"
             /\ result'[c].kind = "none"
       /\ ( result'[c] # result[c] /\ result'[c].via = "cache" )
          => /\ result'[c].data = cache[city[c]]
             /\ now - result'[c].data.LastUpdated < cacheDuration
       /\ ( result'[c] # result[c] /\ result'[c].via = "fetch" )
          => \/ result'[c].kind = "error"
             \/ /\ result'[c].data = cache'[city[c]]
                /\ city[c] \in DOMAIN cache
                     => result'[c].data.LastUpdated
                          >= cache[city[c]].LastUpdated + cacheDuration
     ]_vars

\* A lookup found an entry of age exactly the TTL and the call is fetching.
C9_Witness ==
  \E c \in Calls :
    /\ pc[c] = "collect"
    /\ city[c] \in DOMAIN cache
    /\ now - cache[city[c]].LastUpdated = cacheDuration
    /\ gets[c] > 0

\* ----------------------------------------------------------------- C10
\* C10: once a call is past its range loop (it has merged and is about to
\* store, is storing, or has returned what it fetched) every fetcher it
\* launched has terminated and the channel is closed and empty.
C10_MergeAfterAllFetchers ==
  \A c \in Calls :
    ( \/ pc[c] \in {"store", "locked_w"}
      \/ (pc[c] = "done" /\ result[c].via = "fetch") )
    => /\ \A s \in Sources : fst[c][s] = "done"
       /\ wg[c] = 0
       /\ closed[c]
       /\ chan[c] = <<>>

\* A call has merged after one fetcher failed and two delivered.
C10_Witness ==
  \E c \in Calls :
    /\ pc[c] = "store"
    /\ final[c].City # ""
    /\ final[c].TemperatureMax = 0
    /\ final[c].Sunrise # ""

\* ---------------------------------------------------------------- C11
\* Everything the fetchers of call c have sent: received, then still queued.
Contributed(c) == weatherData[c] \o chan[c]

Succeeded(c) == { s \in Sources : delivered[c][s] # <<>> }

ReadyToMerge(c) == pc[c] = "collect" /\ closed[c] /\ chan[c] = <<>>

MergedFields == StringFields \cup FloatFields \cup IntFields
                  \cup {"HourlyForecast"}

\* The fields source s of call c has populated.
Populated(c, s) ==
  { f \in MergedFields : delivered[c][s][1][f] # ZeroData[f] }

AllSucceededDisjoint(c) ==
  /\ Succeeded(c) = Sources
  /\ \A s, t \in Sources : s # t => Populated(c, s) \cap Populated(c, t) = {}

\* fw carries every field with the value of the one source that supplied it.
CarriesEachSupplier(c, fw) ==
  \A f \in MergedFields :
    IF \E s \in Sources : f \in Populated(c, s)
      THEN \A s \in Sources :
             f \in Populated(c, s) => fw[f] = delivered[c][s][1][f]
      ELSE fw[f] = ZeroData[f]

\* C12: when all sources succeed and populate pairwise disjoint fields, the
\* merged record carries each field from its one supplier, whatever the
\* order in which the records were received.
C12_DisjointFieldsAnyOrder ==
  \A c \in Calls :
    AllSucceededDisjoint(c) =>
      /\ ReadyToMerge(c) =>
            CarriesEachSupplier(c, mergeWeatherData(DataOf(weatherData[c])))
      /\ pc[c] \in {"store", "locked_w"} => CarriesEachSupplier(c, final[c])

\* All three have delivered and the slice is not in launch order.
C12_Witness ==
  /\ ReadyToMerge("c1")
  /\ AllSucceededDisjoint("c1")
  /\ delivered["c1"][3] = <<MoisioA>>
  /\ weatherData["c1"][1].src = 3
  /\ weatherData["c1"][3].src = 1

\* ---------------------------------------------------------------- C13
\* C13: the not-found error names the city exactly as the caller passed it.
C13_ErrorNamesRequestedCity ==
  \A c \in Calls :
    result[c].kind = "error" => result[c].errCity = raw[c]

\* ---------------------------------------------------------------- C14
\* C14: whoever holds cacheMutex is between Lock and Unlock of the lookup or
\* of the store: none of its fetchers runs, it is not waiting on the channel
\* and not merging.
C14_LockOnlyAroundMapAccess ==
  \A c \in Calls :
    mutex = c =>
      /\ pc[c] \in {"locked_r", "locked_w"}
      /\ \A s \in Sources : fst[c][s] \notin {"run", "sent"}
      /\ chan[c] = <<>>
      /\ weatherData[c] = <<>>

\* c1 holds the mutex for its store while c2's fetchers are running.
C14_Witness ==
  /\ mutex = "c1"
  /\ pc["c1"] = "locked_w"
  /\ pc["c2"] = "collect"
  /\ \E s \in Sources : fst["c2"][s] = "run"

\* ---------------------------------------------------------------- C15
Miss(c) == ~(found[c] /\ IsFresh(cachedData[c], now))

InMapAccess(c) == pc[c] \in {"locked_r", "locked_w"}

\* C16: a goroutine reading or writing the cache map holds cacheMutex, the
\* map changes only in the store of the holder, and no two goroutines are
\* in a map access at the same time.
C16_MapAccessUnderMutex ==
  /\ [](\A c \in Calls : InMapAccess(c) => mutex = c)
  /\ [](\A c, d \in Calls : InMapAccess(c) /\ InMapAccess(d) => c = d)
  /\ [][cache' # cache =>
          \E c \in Calls : mutex = c /\ pc[c] = "locked_w"]_vars
  /\ [][\A c \in Calls :
          (found'[c] # found[c] /\ found'[c]) =>
            mutex = c /\ pc[c] = "locked_r"]_vars

\* c1 is inside its store while c2 waits to lock for its lookup.
C16_Witness ==
  /\ pc["c1"] = "locked_w" /\ mutex = "c1"
  /\ pc["c2"] = "start"
  /\ city["c1"] = city["c2"]

\* ---------------------------------------------------------------- C18
\* The diacritic-free spelling of a name.
Plain(name) ==
  [i \in 1..Len(name) |->
     IF name[i] = "ä" THEN "a" ELSE IF name[i] = "ö" THEN "o" ELSE name[i]]

\* C18: a call works under the normalized name: that is its cache key and
\* what each source URL gets appended; every key of the cache is normalized.
C18_KeyedByNormalizedName ==
  /\ \A c \in Calls : pc[c] # "idle" => city[c] = Plain(raw[c])
  /\ \A k \in DOMAIN cache : k = Plain(k)
  /\ \A c \in Calls : \A u \in urls[c] : u.city = Plain(raw[c])
  /\ \A c, d \in Calls :
        (pc[c] # "idle" /\ pc[d] # "idle" /\ Plain(raw[c]) = Plain(raw[d]))
          => city[c] = city[d]

\* c1 fetched for "Ha"; c2 asked for "Hä" and was served c1's entry.
C18_Witness ==
  /\ pc["c1"] = "done" /\ pc["c2"] = "done"
  /\ raw["c1"] = <<"H", "a">> /\ raw["c2"] = <<"H", "ä">>
  /\ result["c1"].kind = "ok" /\ result["c1"].via = "fetch"
  /\ result["c2"].kind = "ok" /\ result["c2"].via = "cache"
  /\ result["c2"].data = result["c1"].data
  /\ urls["c1"] = { [src |-> weatherSources[s], city |-> <<"H", "a">>] :
                      s \in Sources }
  /\ urls["c2"] = {}

\* ---------------------------------------------------------------- C17
InCall(c) == pc[c] \notin {"idle", "done"}

\* C17: under fair scheduling, and every retrieval completing, a call of
\* GetWeatherData that has started returns; it does not wait forever in the
\* collect loop, whether sources succeed or not.
C17_EveryCallReturns ==
  \A c \in Solo : InCall(c) ~> pc[c] = "done"

\* A call has returned the error after all three fetchers failed.
C17_Witness ==
  /\ pc["c1"] = "done"
  /\ result["c1"].kind = "error"
  /\ gets["c1"] = Len(weatherSources)
  /\ Succeeded("c1") = {}
  /\ closed["c1"]

\* ---------------------------------------------------------------- C19
\* C19: sanitizeCityName applied to its own result changes nothing, and a
\* name and its spelling without ä and ö get the same key: Hyvinkää and
\* Hyvinkaa both give Hyvinkaa.
C19_NormalizeIdempotent ==
  /\ Len(pOut) >= 1 =>
       /\ pOut[1] = Plain(pArg)
       /\ pArg \in {Hyvinkaeae, Hyvinkaa} => pOut[1] = Hyvinkaa
       /\ \A i \in 1..Len(pOut[1]) : pOut[1][i] \notin {"ä", "ö"}
  /\ Len(pOut) = 2 => pOut[2] = pOut[1]

\* Hyvinkää has been normalized twice.
C19_Witness ==
  /\ pArg = Hyvinkaeae
  /\ pOut = <<Hyvinkaa, Hyvinkaa>>

\* ---------------------------------------------------------------- C20
Parsed == pOut # <<>>

\* The one field spec'd as mandatory, the city, is absent from the page.
MandatoryAbsent == pArg.src = 2 /\ pArg.doc.location = <<>>

\* The texts of the page that the extractor converts to top-level numbers.
NumericTexts ==
  LET d == pArg.doc IN
  CASE pArg.src = 1 ->
         { cleanTemperatureString(d.tx), cleanTemperatureString(d.tn),
           Atoi(d.w) }
    [] pArg.src = 2 ->
         { cleanTemperatureString(d.temperature),
           cleanTemperatureString(d.feelsLike),
           ParseFloat(removeAll(d.precipitation, <<" ", "m", "m">>)),
           Atoi(d.time),
           cleanTemperatureString(d.tomorrow),
           cleanTemperatureString(
             removeAll(d.tomorrowMin, <<"a", "l", "i", "n", " ">>)) }
    [] pArg.src = 3 -> {}

Issued(c) == { s \in Sources : fst[c][s] \in {"sent", "done"} }

\* C21: a call issues one GET per source it has got to, to the source's URL
\* plus the normalized city, none when it is served from the cache and one
\* for every source when it fetches; nothing is asked twice within a call.
C21_OneGetPerSource ==
  \A c \in Calls :
    /\ gets[c] = Cardinality(Issued(c))
    /\ urls[c] = { [src |-> weatherSources[s], city |-> Plain(raw[c])] :
                     s \in Issued(c) }
    /\ result[c].via = "cache" => gets[c] = 0
    /\ (pc[c] \in {"store", "locked_w"} \/ result[c].via = "fetch")
         => gets[c] = Len(weatherSources)

\* The call after one that failed for the same key has asked every source
\* again, once, and has returned a record.
C21_Witness ==
  /\ prevFailed["c1"]
  /\ pc["c1"] = "done"
  /\ result["c1"].kind = "ok" /\ result["c1"].via = "fetch"
  /\ gets["c1"] = Len(weatherSources)

\* ---------------------------------------------------------------- C22
\* C22: mergeWeatherData of the empty slice is the record with empty city
\* and every field zero, and a call that collected nothing returns the
\* not-found error.
C22_EmptyMergeIsNotFound ==
  [][\A c \in Calls :
       (ReadyToMerge(c) /\ weatherData[c] = <<>> /\ pc'[c] # "collect") =>
         /\ mergeWeatherData(DataOf(weatherData[c])) = ZeroData
         /\ pc'[c] = "done"
         /\ result'[c].kind = "error"
         /\ result'[c].data = ZeroData
         /\ cache' = cache]_vars

\* All three fetchers have failed and the loop has ended with nothing.
C22_Witness ==
  /\ pc["c1"] = "done"
  /\ result["c1"].kind = "error"
  /\ Succeeded("c1") = {}
  /\ \A s \in Sources : fst["c1"][s] = "done"
  /\ city["c1"] \notin DOMAIN cache

\* ---------------------------------------------------------------- C23
\* The positions of the partials that name a city.
Named(data) == { k \in 1..Len(data) : data[k].City # "" }

\* C23: when exactly one partial names a city, the merged city is that one,
\* wherever the partial stands in the slice.
C23_SingleCityAnyPosition ==
  (MergeDone /\ Cardinality(Named(mData)) = 1) =>
    \A k \in Named(mData) : md.City = mData[k].City

\* The one partial with a city stands between two without.
C23_Witness ==
  /\ MergeDone
  /\ Len(mData) = 3
  /\ Named(mData) = {2}
  /\ mData[1] # ZeroData /\ mData[3] # ZeroData
  /\ md.City = mData[2].City

\* ---------------------------------------------------------------- C25
\* C25: the channel never holds more than one item per source and no source
\* twice; a fetcher that has still to send finds room and the channel open;
\* the channel is closed once, when every fetcher has called Done.
C25_SendNeverBlocks ==
  /\ [](\A c \in Calls :
          /\ Len(chan[c]) <= Len(weatherSources)
          /\ Cardinality({ Contributed(c)[k].src :
                             k \in 1..Len(Contributed(c)) })
               = Len(Contributed(c))
          /\ \A s \in Sources :
               fst[c][s] = "run" => Len(chan[c]) < chanCap /\ ~closed[c]
          /\ closed[c] => wg[c] = 0 /\ \A s \in Sources : fst[c][s] = "done")
  /\ [][\A c \in Calls :
          /\ (~closed[c] /\ closed'[c]) =>
               wg[c] = 0 /\ \A s \in Sources : fst[c][s] = "done"
          /\ (closed[c] /\ ~closed'[c]) => pc'[c] = "start"]_vars

\* All three fetchers have sent and none has returned yet: the buffer is
\* full and the channel open.
C25_Witness ==
  /\ pc["c1"] = "collect"
  /\ Len(chan["c1"]) = Len(weatherSources)
  /\ \A s \in Sources : fst["c1"][s] = "sent"
  /\ ~closed["c1"]

\* ---------------------------------------------------------------- C26
Storing(c) == pc[c] = "locked_w" /\ pc'[c] = "done"

\* C26 as stated: the LastUpdated of the entry under a key never decreases.
C26_LastUpdatedNeverDecreases ==
  [][\A k \in DOMAIN cache :
       /\ k \in DOMAIN cache'
       /\ cache'[k].LastUpdated >= cache[k].LastUpdated]_vars

\* C26, amended: an entry's LastUpdated is the merge time of the call that
\* stored last, never later than the clock; a store writes its own merge
\* time also over an entry that a concurrent call merged later.
C26_StoreWritesOwnMergeTime ==
  /\ [](\A k \in DOMAIN cache :
          cache[k].LastUpdated > ZeroTime /\ cache[k].LastUpdated <= now)
  /\ [][\A c \in Calls :
          Storing(c) =>
            /\ cache'[city[c]].LastUpdated = final[c].LastUpdated
            /\ final[c].LastUpdated <= now]_vars
  /\ [][\A k \in DOMAIN cache :
          cache'[k].LastUpdated # cache[k].LastUpdated =>
            \E c \in Calls : Storing(c) /\ city[c] = k]_vars

\* c2 has returned a record merged later than the one now in the cache,
\* which c1 stored after it.
C26_Witness ==
  /\ pc["c1"] = "done" /\ pc["c2"] = "done"
  /\ result["c1"].via = "fetch" /\ result["c1"].kind = "ok"
  /\ result["c2"].via = "fetch" /\ result["c2"].kind = "ok"
  /\ city["c1"] = city["c2"]
  /\ cache[city["c1"]] = result["c1"].data
  /\ result["c2"].data.LastUpdated > cache[city["c1"]].LastUpdated

\* ---------------------------------------------------------------- C27
\* C27: every step leaves every entry as it is, but for the store of a call
\* and the entry under that call's normalized city.
C27_OnlyOwnKeyModified ==
  [][\A k \in DOMAIN cache :
       \/ k \in DOMAIN cache' /\ cache'[k] = cache[k]
       \/ \E c \in Calls : Storing(c) /\ k = Plain(raw[c])]_vars

\* Both keys are cached, each by another call, and c1 has just stored under
\* its own.
C27_Witness ==
  /\ pc["c1"] = "done" /\ pc["c2"] = "done"
  /\ result["c1"].via = "fetch" /\ result["c1"].kind = "ok"
  /\ result["c2"].via = "fetch" /\ result["c2"].kind = "ok"
  /\ city["c1"] # city["c2"]
  /\ cache[city["c1"]] = result["c1"].data
  /\ cache[city["c2"]] = result["c2"].data
  /\ result["c1"].data.LastUpdated > result["c2"].data.LastUpdated

\* ---------------------------------------------------------------- C28
Hitting(c) == pc[c] = "check" /\ pc'[c] = "done"

\* C28: a hit returns the entry and leaves the whole cache as it is, the
\* entry's LastUpdated included; it happens only within cacheDuration of
\* that LastUpdated.
C28_HitLeavesCacheUnchanged ==
  [][\A c \in Calls :
       Hitting(c) =>
         /\ cache' = cache
         /\ result'[c].data = cache'[city[c]]
         /\ now - cache'[city[c]].LastUpdated < cacheDuration]_vars

\* An entry of minute 1 has been served in minute 5 and still says minute 1.
C28_Witness ==
  /\ pc["c1"] = "done"
  /\ result["c1"].via = "cache"
  /\ result["c1"].data.LastUpdated = 1
  /\ cache[city["c1"]].LastUpdated = 1
  /\ now = cacheDuration

\* ---------------------------------------------------------------- C29
\* C29: no step removes a key, and a call that ends in the not-found error
\* leaves the cache as it was, a stale entry under its key included.
C29_EntriesNeverRemoved ==
  [][/\ DOMAIN cache \subseteq DOMAIN cache'
     /\ \A c \in Calls :
          (pc[c] = "collect" /\ pc'[c] = "done") => cache' = cache
     /\ cache' # cache => \E c \in Calls : Storing(c)]_vars

\* The refresh of a stale entry has failed and the entry is still there.
C29_Witness ==
  /\ pc["c1"] = "done"
  /\ result["c1"].kind = "error"
  /\ city["c1"] \in DOMAIN cache
  /\ now - cache[city["c1"]].LastUpdated >= cacheDuration

\* ---------------------------------------------------------------- C30
\* C30: the merged record never has a RainChance or a LastUpdated, whatever
\* the partials carry.
C30_RainChanceNeverMerged ==
  /\ md.RainChance = 0
  /\ md.LastUpdated = ZeroTime
  /\ (MergeDone /\ Len(mData) = 1) =>
       md = [mData[1] EXCEPT !.RainChance = 0, !.LastUpdated = ZeroTime]

\* The merge of the one partial FullA is not FullA.
C30_Witness ==
  /\ MergeDone
  /\ mData = <<FullA>>
  /\ FullA.RainChance # 0
  /\ md # FullA

\* ---------------------------------------------------------------- C24
\* The page has its city and every top-level number.
TopLevelParses == ~MandatoryAbsent /\ \A n \in NumericTexts : ~n.err

RowParses(s) ==
  /\ ~cleanTemperatureString(s.temperature).err
  /\ ~Atoi(s.wind).err
  /\ ~ParseFloat(removeAll(s.precipitation, <<" ", "m", "m">>)).err

\* The first 24 rows of the page, or all it has, whose values parse.
Kept ==
  { i \in 1..Len(pArg.doc.hours) :
      i <= HourSlice /\ RowParses(pArg.doc.hours[i]) }

\* The j-th of them in document order.
KeptAt(j) == CHOOSE i \in Kept : Cardinality({ k \in Kept : k < i }) = j - 1

\* C24: the hourly forecast of a page is, in document order, one entry for
\* each of its first 24 rows whose temperature, wind speed and rainfall
\* parse; the other rows are skipped and the source does not fail.
C24_HourlyIsTheRowsThatParse ==
  (Parsed /\ pArg.src = 2 /\ TopLevelParses) =>
    LET hf == pOut[1].data.HourlyForecast
        hours == pArg.doc.hours
    IN
    /\ ~pOut[1].err
    /\ Len(hf) = Cardinality(Kept)
    /\ Len(hf) <= HourSlice
    /\ \A j \in 1..Len(hf) :
          /\ hf[j].Hour = Join(hours[KeptAt(j)].time)
          /\ hf[j].Temperature =
               cleanTemperatureString(hours[KeptAt(j)].temperature).val
          /\ hf[j].WindSpeed = Atoi(hours[KeptAt(j)].wind).val

====
